---- MODULE Spec2Model ----
(***************************************************************************)
(* Token Address Finder (tokenaddress.py): get_address and the             *)
(* "Find Addresses" handler, modelled as a state machine.                  *)
(*                                                                         *)
(* Python strings that the code inspects character by character (the       *)
(* ticker) are sequences of one-character strings, so that str() and       *)
(* strip() are computed.  Opaque strings (sentinels, the address taken     *)
(* from a response) are TLA+ strings.                                      *)
(***************************************************************************)
EXTENDS Naturals, Sequences, FiniteSets, TLC

\* Largest number of rows in column A of the uploaded sheet.
MaxRows == 2

(***************************************************************************)
(* Python values found in a cell of column A.                              *)
(*   kind "str"   : a str, its characters in text                          *)
(*   kind "float" : a finite float with integral value num (7.0)           *)
(*   kind "nan"   : float('nan'), what read_excel gives for an empty cell  *)
(*   kind "none"  : None                                                   *)
(***************************************************************************)
StrVal(s) == [kind |-> "str", text |-> s, num |-> 0]
FloatVal(n) == [kind |-> "float", text |-> <<>>, num |-> n]
NaN == [kind |-> "nan", text |-> <<>>, num |-> 0]
None == [kind |-> "none", text |-> <<>>, num |-> 0]

\* The cell values the model draws rows from.
CellValues ==
    { StrVal(<<>>), StrVal(<<" ">>), StrVal(<<"B", "T", "C">>),
      NaN, None, FloatVal(7) }

DigitChars == <<"0", "1", "2", "3", "4", "5", "6", "7", "8", "9">>

\* Decimal digits of a natural number.
RECURSIVE Digits(_)
Digits(n) ==
    IF n < 10 THEN <<DigitChars[n + 1]>>
    ELSE Digits(n \div 10) \o <<DigitChars[(n % 10) + 1]>>

\* Python's str(v).
PyStr(v) ==
    CASE v.kind = "str" -> v.text
      [] v.kind = "float" -> Digits(v.num) \o <<".", "0">>
      [] v.kind = "nan" -> <<"n", "a", "n">>
      [] v.kind = "none" -> <<"N", "o", "n", "e">>

IsSpace(c) == c = " "

RECURSIVE LStrip(_)
LStrip(s) == IF s # <<>> /\ IsSpace(Head(s)) THEN LStrip(Tail(s)) ELSE s

RECURSIVE RStrip(_)
RStrip(s) ==
    IF s # <<>> /\ IsSpace(s[Len(s)])
    THEN RStrip(SubSeq(s, 1, Len(s) - 1))
    ELSE s

\* Python's str.strip().
Strip(s) == RStrip(LStrip(s))

\* pandas.isna on a scalar: true of NaN and None, false of every str.
pd_isna(v) == v.kind \in {"nan", "none"}

\* get_address, lines 23-24: only a non-str ticker is converted and stripped.
Coerce(ticker) ==
    IF ticker.kind # "str" THEN StrVal(Strip(PyStr(ticker))) ELSE ticker

\* get_address, line 26, on the (reassigned) local variable ticker.
IsInvalidTicker(ticker) ==
    LET t == Coerce(ticker) IN t.text = <<>> \/ pd_isna(t)

(***************************************************************************)
(* What the network does with one GET (requests.get, line 32): it fails at *)
(* transport level with an exception, or a response arrives with a status  *)
(* and a body.  A body is a JSON object (its fields), another JSON value,  *)
(* or text that is not JSON.                                               *)
(***************************************************************************)
NoFields == [k \in {} |-> ""]

Transport(exc) ==
    [kind |-> "transport", exc |-> exc, status |-> 0,
     json |-> "none", fields |-> NoFields]

Http(status, json, fields) ==
    [kind |-> "http", exc |-> "none", status |-> status,
     json |-> json, fields |-> fields]

\* Placeholder in the response history for a row that issued no GET.
NoCall ==
    [kind |-> "nocall", exc |-> "none", status |-> 0,
     json |-> "none", fields |-> NoFields]

\* The answers the model draws from: the host is unreachable; an error
\* status with an HTML error page; a success status with an object that
\* has an address, an object that has none, and text that is not JSON.
Responses ==
    { Transport("ConnectionError"),
      Http(404, "malformed", NoFields), Http(500, "malformed", NoFields),
      Http(200, "object", "address" :> "0xabc"),
      Http(200, "object", "networkId" :> "1"),
      Http(200, "malformed", NoFields) }

(***************************************************************************)
(* Exception classes and their base classes (requests.exceptions and the   *)
(* builtins), as the except clauses of lines 36-41 match them.             *)
(***************************************************************************)
Parent(cls) ==
    CASE cls = "HTTPError" -> "RequestException"
      [] cls = "ConnectionError" -> "RequestException"
      [] cls = "Timeout" -> "RequestException"
      [] cls = "RequestsJSONDecodeError" -> "RequestException"
      [] cls = "RequestException" -> "Exception"
      [] cls = "ValueError" -> "Exception"
      [] cls = "AttributeError" -> "Exception"
      [] cls = "KeyError" -> "Exception"
      [] OTHER -> "BaseException"

RECURSIVE IsSubclass(_, _)
IsSubclass(cls, base) ==
    \/ cls = base
    \/ cls # "BaseException" /\ IsSubclass(Parent(cls), base)

Returned(v) == [exc |-> "none", value |-> v]
Raised(cls) == [exc |-> cls, value |-> ""]

\* Response.raise_for_status(), line 33: HTTPError for a 4xx or 5xx status.
RaisesForStatus(resp) == 400 <= resp.status /\ resp.status < 600

\* The class Response.json() raises for a body that is not JSON: since
\* requests 2.27 requests.exceptions.JSONDecodeError, a RequestException;
\* before, json.JSONDecodeError, a ValueError.  The installed version
\* decides (line 3 pins none).
JsonDecodeErrorClass(newRequests) ==
    IF newRequests THEN "RequestsJSONDecodeError" ELSE "ValueError"

\* dict.get(key, default), line 35, with a KeyError-raising variant.
DictGetStrict(fields, key, default) ==
    IF key \in DOMAIN fields THEN Returned(fields[key]) ELSE Raised("KeyError")

DictGet(fields, key, default) ==
    Returned(IF key \in DOMAIN fields THEN fields[key] ELSE default)

\* The try body, lines 31-35: a returned value or the exception raised.
TryBody(resp, newRequests) ==
    CASE resp.kind = "transport" -> Raised(resp.exc)
      [] resp.kind = "http" /\ RaisesForStatus(resp) -> Raised("HTTPError")
      [] resp.kind = "http" /\ ~RaisesForStatus(resp) /\ resp.json = "malformed"
           -> Raised(JsonDecodeErrorClass(newRequests))
      [] resp.kind = "http" /\ ~RaisesForStatus(resp) /\ resp.json = "array"
           -> Raised("AttributeError")
      [] OTHER -> DictGet(resp.fields, "address", "Address key not found")

\* The except clauses of get_address in source order, lines 36-43, and a
\* variant without the final catch-all.
HandlersNoCatchAll ==
    << <<"HTTPError", "Not Found">>,
       <<"RequestException", "API Error">> >>

Handlers ==
    << <<"HTTPError", "Not Found">>,
       <<"RequestException", "API Error">>,
       <<"Exception", "Processing Error">> >>

\* Python's try/except: the first clause whose class matches handles the
\* exception; with none matching it propagates to the caller.
Catch(r) ==
    IF r.exc = "none" THEN r
    ELSE LET hits == {k \in 1..Len(Handlers) : IsSubclass(r.exc, Handlers[k][1])}
         IN IF hits = {} THEN r
            ELSE Returned(Handlers[CHOOSE k \in hits : \A j \in hits : k <= j][2])

\* get_address after the validity check, lines 29-43.
Fetch(resp, newRequests) == Catch(TryBody(resp, newRequests))

(***************************************************************************)
(* State of one run of the script after "Find Addresses" is clicked.       *)
(***************************************************************************)
VARIABLES
    uploaded_tickers_file, \* "none", "malformed" or "ok" (line 59)
    api_base_url,          \* the text field's content (line 67)
    newRequests,           \* whether requests is 2.27 or later
    column,                \* the cells of column A of the first sheet
    pc,                    \* where the handler is
    i,                     \* rows completed by the for loop (line 99)
    address,               \* the value get_address returned (line 100)
    addresses,             \* the result list (line 94)
    gets,                  \* the GETs issued so far: row and URL path
    resps,                 \* per row called: the network's answer, or NoCall
    inflight,              \* GETs issued and not yet answered
    pauses,                \* time.sleep calls since the last GET was issued
    progress,              \* numerator of the last progress fraction
    attached,              \* df has the 'token address' column (line 109)
    tableShown,            \* st.dataframe has displayed the table (line 116)
    downloadShown,         \* st.download_button is displayed (line 120)
    errors,                \* st.error messages shown (line 128)
    warnings,              \* st.warning messages shown (lines 79, 81)
    raisedAt               \* the step whose exception reached line 127

vars ==
    <<uploaded_tickers_file, api_base_url, newRequests, column, pc, i,
      address, addresses, gets, resps, inflight, pauses, progress, attached,
      tableShown, downloadShown, errors, warnings, raisedAt>>

\* All sequences over S of length at most n.
SeqsUpTo(S, n) == UNION {[1..k -> S] : k \in 0..n}

BaseUrls == {<<>>, <<"u">>}

Init ==
    /\ uploaded_tickers_file \in {"none", "malformed", "ok"}
    /\ api_base_url \in BaseUrls
    /\ newRequests \in BOOLEAN
    /\ column \in IF uploaded_tickers_file = "ok"
                  THEN SeqsUpTo(CellValues, MaxRows)
                  ELSE {<<>>}
    /\ pc = "button"
    /\ i = 0
    /\ address = ""
    /\ addresses = <<>>
    /\ gets = <<>>
    /\ resps = <<>>
    /\ inflight = 0
    /\ pauses = 0
    /\ progress = 0
    /\ attached = FALSE
    /\ tableShown = FALSE
    /\ downloadShown = FALSE
    /\ errors = 0
    /\ warnings = 0
    /\ raisedAt = "none"

\* len(df), line 96.
total_tickers == Len(column)

\* An exception leaves the try block at step `where` (line 127 catches it).
Raise(where) ==
    /\ pc' = "raised"
    /\ raisedAt' = where

\* Lines 77-83: the button's three branches.
Click ==
    /\ pc = "button"
    /\ IF uploaded_tickers_file = "none" \/ api_base_url = <<>>
       THEN pc' = "warned" /\ warnings' = warnings + 1
       ELSE pc' = "read" /\ warnings' = warnings
    /\ UNCHANGED <<uploaded_tickers_file, api_base_url, newRequests, column,
                   i, address, addresses, gets, resps, inflight, pauses,
                   progress, attached, tableShown, downloadShown, errors,
                   raisedAt>>

\* Lines 86-96: read_excel raises on a malformed file, df.columns[0] raises
\* on a sheet without cells; otherwise the loop is set up.
ReadExcel ==
    /\ pc = "read"
    /\ IF uploaded_tickers_file = "malformed" \/ Len(column) = 0
       THEN Raise("read") /\ UNCHANGED <<addresses, progress>>
       ELSE /\ pc' = "loop"
            /\ addresses' = <<>>
            /\ progress' = 0
            /\ raisedAt' = raisedAt
    /\ UNCHANGED <<uploaded_tickers_file, api_base_url, newRequests, column,
                   i, address, gets, resps, inflight, pauses, attached,
                   tableShown, downloadShown, errors, warnings>>

\* Lines 99-100 and 20-32: the loop takes the next cell and calls
\* get_address, which returns at line 27 or issues the GET of line 32.
CallGetAddress ==
    /\ pc = "loop"
    /\ i < total_tickers
    /\ LET ticker == column[i + 1] IN
       IF IsInvalidTicker(ticker)
       THEN /\ address' = "Invalid Ticker"
            /\ resps' = Append(resps, NoCall)
            /\ pc' = "append"
            /\ UNCHANGED <<gets, inflight, pauses>>
       ELSE /\ gets' = Append(gets, [row |-> i + 1,
                                     url |-> api_base_url \o <<"/">>
                                               \o Coerce(ticker).text])
            /\ inflight' = inflight + 1
            /\ pauses' = 0
            /\ pc' = "wait"
            /\ UNCHANGED <<address, resps>>
    /\ UNCHANGED <<uploaded_tickers_file, api_base_url, newRequests, column,
                   i, addresses, progress, attached, tableShown,
                   downloadShown, errors, warnings, raisedAt>>

\* Lines 32-43: the GET ends (response, or transport failure within the
\* timeout) and get_address returns, or lets an exception through.
Receive ==
    /\ pc = "wait"
    /\ \E resp \in Responses :
         LET r == Fetch(resp, newRequests) IN
         /\ resps' = Append(resps, resp)
         /\ inflight' = inflight - 1
         /\ IF r.exc = "none"
            THEN address' = r.value /\ pc' = "append" /\ raisedAt' = raisedAt
            ELSE address' = address /\ Raise("loop")
    /\ UNCHANGED <<uploaded_tickers_file, api_base_url, newRequests, column,
                   i, addresses, gets, pauses, progress, attached,
                   tableShown, downloadShown, errors, warnings>>

\* Line 101, and a variant that keeps only resolved rows.
AppendAddressDroppingInvalid ==
    /\ pc = "append"
    /\ addresses' = IF address = "Invalid Ticker" THEN addresses
                    ELSE Append(addresses, address)
    /\ pc' = "sleep"
    /\ UNCHANGED <<uploaded_tickers_file, api_base_url, newRequests, column,
                   i, address, gets, resps, inflight, pauses, progress,
                   attached, tableShown, downloadShown, errors, warnings,
                   raisedAt>>

AppendAddress ==
    /\ pc = "append"
    /\ addresses' = Append(addresses, address)
    /\ pc' = "sleep"
    /\ UNCHANGED <<uploaded_tickers_file, api_base_url, newRequests, column,
                   i, address, gets, resps, inflight, pauses, progress,
                   attached, tableShown, downloadShown, errors, warnings,
                   raisedAt>>

\* Line 103, and a variant that pauses only after a resolved address.
SleepOnSuccessOnly ==
    /\ pc = "sleep"
    /\ pauses' = IF address \in {"Not Found", "API Error", "Processing Error"}
                 THEN pauses ELSE pauses + 1
    /\ pc' = "progress"
    /\ UNCHANGED <<uploaded_tickers_file, api_base_url, newRequests, column,
                   i, address, addresses, gets, resps, inflight, progress,
                   attached, tableShown, downloadShown, errors, warnings,
                   raisedAt>>

Sleep ==
    /\ pc = "sleep"
    /\ pauses' = pauses + 1
    /\ pc' = "progress"
    /\ UNCHANGED <<uploaded_tickers_file, api_base_url, newRequests, column,
                   i, address, addresses, gets, resps, inflight, progress,
                   attached, tableShown, downloadShown, errors, warnings,
                   raisedAt>>

\* Line 105: progress((i + 1) / total_tickers), which streamlit rejects
\* with an exception above 1.0; then the loop's next iteration.
Progress ==
    /\ pc = "progress"
    /\ IF i + 1 > total_tickers
       THEN Raise("loop") /\ UNCHANGED <<i, progress>>
       ELSE /\ progress' = i + 1
            /\ i' = i + 1
            /\ pc' = "loop"
            /\ raisedAt' = raisedAt
    /\ UNCHANGED <<uploaded_tickers_file, api_base_url, newRequests, column,
                   address, addresses, gets, resps, inflight, pauses,
                   attached, tableShown, downloadShown, errors, warnings>>

\* Line 109: the column is attached; pandas raises ValueError when the
\* list's length is not the frame's.
Attach ==
    /\ pc = "loop"
    /\ i = total_tickers
    /\ IF Len(addresses) # total_tickers
       THEN Raise("attach") /\ attached' = attached
       ELSE attached' = TRUE /\ pc' = "render" /\ raisedAt' = raisedAt
    /\ UNCHANGED <<uploaded_tickers_file, api_base_url, newRequests, column,
                   i, address, addresses, gets, resps, inflight, pauses,
                   progress, tableShown, downloadShown, errors, warnings>>

\* Lines 111-116: the table is displayed, or a call on the way raises.
Render ==
    /\ pc = "render"
    /\ \/ tableShown' = TRUE /\ pc' = "csv" /\ raisedAt' = raisedAt
       \/ tableShown' = tableShown /\ Raise("render")
    /\ UNCHANGED <<uploaded_tickers_file, api_base_url, newRequests, column,
                   i, address, addresses, gets, resps, inflight, pauses,
                   progress, attached, downloadShown, errors, warnings>>

\* Line 119: convert_df_to_csv returns the bytes, or raises (hashing the
\* frame for the cache, encoding to UTF-8).
ConvertCsv ==
    /\ pc = "csv"
    /\ \/ pc' = "download" /\ raisedAt' = raisedAt
       \/ Raise("csv")
    /\ UNCHANGED <<uploaded_tickers_file, api_base_url, newRequests, column,
                   i, address, addresses, gets, resps, inflight, pauses,
                   progress, attached, tableShown, downloadShown, errors,
                   warnings>>

\* Lines 120-125: the download button is displayed, or the call raises.
DownloadButton ==
    /\ pc = "download"
    /\ \/ downloadShown' = TRUE /\ pc' = "done" /\ raisedAt' = raisedAt
       \/ downloadShown' = downloadShown /\ Raise("download")
    /\ UNCHANGED <<uploaded_tickers_file, api_base_url, newRequests, column,
                   i, address, addresses, gets, resps, inflight, pauses,
                   progress, attached, tableShown, errors, warnings>>

\* Lines 127-128, and a variant that swallows the exception silently.
ExceptSilently ==
    /\ pc = "raised"
    /\ pc' = "failed"
    /\ UNCHANGED <<uploaded_tickers_file, api_base_url, newRequests, column,
                   i, address, addresses, gets, resps, inflight, pauses,
                   progress, attached, tableShown, downloadShown, errors,
                   warnings, raisedAt>>

Except ==
    /\ pc = "raised"
    /\ errors' = errors + 1
    /\ pc' = "failed"
    /\ UNCHANGED <<uploaded_tickers_file, api_base_url, newRequests, column,
                   i, address, addresses, gets, resps, inflight, pauses,
                   progress, attached, tableShown, downloadShown, warnings,
                   raisedAt>>

Next ==
    \/ Click
    \/ ReadExcel
    \/ CallGetAddress
    \/ Receive
    \/ AppendAddress
    \/ Sleep
    \/ Progress
    \/ Attach
    \/ Render
    \/ ConvertCsv
    \/ DownloadButton
    \/ Except

Spec == Init /\ [][Next]_vars

\* The script runs to its end: streamlit executes it statement by statement
\* and every GET returns or times out (timeout=10, line 32).
FairSpec == Spec /\ WF_vars(Next)

(***************************************************************************)
(* Vocabulary of the properties.                                           *)
(***************************************************************************)
\* The normalized form of a raw ticker: its string representation with the
\* surrounding whitespace trimmed.
NormalForm(v) == Strip(PyStr(v))

\* A missing/null marker: NaN or None.
IsMissing(v) == v.kind \in {"nan", "none"}

\* An invalid ticker: empty once normalized, or missing.
InvalidTicker(v) == NormalForm(v) = <<>> \/ IsMissing(v)

\* The positions in gets of the GETs issued for row k.
GetsForRow(k) == {j \in 1..Len(gets) : gets[j].row = k}

FailureSentinels == {"Not Found", "API Error", "Processing Error"}

LoopSteps == {"loop", "wait", "append", "sleep", "progress"}

\* get_address of row k's cell, given the network's answer to that row.
OutcomeOf(k) ==
    IF IsInvalidTicker(column[k]) THEN "Invalid Ticker"
    ELSE Fetch(resps[k], newRequests).value

IsHttpError(resp) == resp.kind = "http" /\ RaisesForStatus(resp)

IsSuccess(resp) == resp.kind = "http" /\ ~RaisesForStatus(resp)

(***************************************************************************)
(* C1: the result list holds, after j rows, exactly the outcomes of rows   *)
(* 1..j in input order; it is only appended to; once the loop is left it   *)
(* has the input's length.                                                 *)
(***************************************************************************)
ResultsFollowInput ==
    /\ Len(addresses) <= Len(column)
    /\ Len(resps) >= Len(addresses)
    /\ \A k \in 1..Len(addresses) : addresses[k] = OutcomeOf(k)
    /\ pc \in {"loop", "progress"} => Len(addresses) = IF pc = "loop" THEN i ELSE i + 1
    /\ pc \in {"render", "csv", "download", "done"} => Len(addresses) = Len(column)

AppendOnly ==
    \/ addresses' = addresses
    \/ /\ Len(addresses') = Len(addresses) + 1
       /\ SubSeq(addresses', 1, Len(addresses)) = addresses

C1_ResultSequence == []ResultsFollowInput /\ [][AppendOnly]_vars

C1_Witness ==
    /\ pc = "done"
    /\ Len(addresses) = 2
    /\ addresses[1] = "API Error"
    /\ addresses[2] = "Invalid Ticker"

(***************************************************************************)
(* C2: a ticker whose normalized form is the empty string resolves to      *)
(* "Invalid Ticker" and no GET is issued for its row.                      *)
(***************************************************************************)
C2_EmptyNormalFormInvalid ==
    \A k \in 1..Len(column) :
        NormalForm(column[k]) = <<>> =>
            /\ GetsForRow(k) = {}
            /\ k <= Len(addresses) => addresses[k] = "Invalid Ticker"

(***************************************************************************)
(* C3: a missing ticker (NaN, None) resolves to "Invalid Ticker" and no    *)
(* GET is issued for its row.                                              *)
(***************************************************************************)
C3_MissingInvalid ==
    \A k \in 1..Len(column) :
        IsMissing(column[k]) =>
            /\ GetsForRow(k) = {}
            /\ k <= Len(addresses) => addresses[k] = "Invalid Ticker"

(***************************************************************************)
(* C4: for a valid ticker an HTTP error status gives "Not Found" and a     *)
(* transport failure gives "API Error"; with the base URL unreachable      *)
(* every valid ticker gives "API Error" and every invalid one "Invalid     *)
(* Ticker" without a call.                                                 *)
(***************************************************************************)
C4_FailureClassified ==
    \A k \in 1..Len(addresses) :
        IF InvalidTicker(column[k])
        THEN addresses[k] = "Invalid Ticker" /\ GetsForRow(k) = {}
        ELSE /\ IsHttpError(resps[k]) => addresses[k] = "Not Found"
             /\ resps[k].kind = "transport" => addresses[k] = "API Error"

\* The part of C4 about the rows the code does call: the failure of the
\* GET is classified by kind.
FetchFailureClassified ==
    \A k \in 1..Len(addresses) :
        /\ IsHttpError(resps[k]) => addresses[k] = "Not Found"
        /\ resps[k].kind = "transport" => addresses[k] = "API Error"

(***************************************************************************)
(* C5: for a valid ticker a success status with a body that is not JSON    *)
(* gives "Processing Error", and no exception leaves get_address.          *)
(***************************************************************************)
C5_MalformedJsonProcessingError ==
    /\ raisedAt # "loop"
    /\ \A k \in 1..Len(addresses) :
           /\ ~InvalidTicker(column[k])
           /\ IsSuccess(resps[k])
           /\ resps[k].json = "malformed"
           => addresses[k] = "Processing Error"

(***************************************************************************)
(* C6: for a valid ticker a success status with a JSON object gives the    *)
(* object's address field, or the default string when the field is         *)
(* absent, without an exception.  As claimed the default is "Address not   *)
(* found"; the code's default is "Address key not found".                  *)
(***************************************************************************)
AddressOrDefault(default) ==
    /\ raisedAt # "loop"
    /\ \A k \in 1..Len(addresses) :
           /\ ~InvalidTicker(column[k])
           /\ IsSuccess(resps[k])
           /\ resps[k].json = "object"
           => addresses[k] = IF "address" \in DOMAIN resps[k].fields
                              THEN resps[k].fields["address"]
                              ELSE default

C6_AddressOrClaimedDefault == AddressOrDefault("Address not found")

C6_AddressOrCodeDefault == AddressOrDefault("Address key not found")

C6_Witness ==
    \E k \in 1..Len(addresses) :
        /\ ~InvalidTicker(column[k])
        /\ IsSuccess(resps[k])
        /\ resps[k].json = "object"
        /\ "address" \notin DOMAIN resps[k].fields
        /\ addresses[k] = "Address key not found"

(***************************************************************************)
(* C7: the GETs issued are exactly one per non-invalid row called so far   *)
(* and none for an invalid row; no row is requested twice.                 *)
(***************************************************************************)
RowsCalled == 1..(IF pc \in {"wait", "append", "sleep", "progress"} THEN i + 1 ELSE i)

C7_OneGetPerValidRow ==
    /\ Len(gets) = Cardinality({k \in RowsCalled : ~InvalidTicker(column[k])})
    /\ \A k \in 1..Len(column) :
           /\ Cardinality(GetsForRow(k)) <= 1
           /\ InvalidTicker(column[k]) => GetsForRow(k) = {}

\* The part of C7 that does not rest on which tickers are invalid: one GET
\* per row that passed the code's own check, none repeated.
OneGetPerCalledRow ==
    /\ Len(gets) = Cardinality({k \in RowsCalled : ~IsInvalidTicker(column[k])})
    /\ \A k \in 1..Len(column) : Cardinality(GetsForRow(k)) <= 1

(***************************************************************************)
(* C8: a failing row never aborts the run: no step of the loop raises to   *)
(* the top-level handler, and once the loop has started the result column  *)
(* is eventually attached.                                                 *)
(***************************************************************************)
LoopNeverRaises == pc \in LoopSteps => pc' # "raised"

C8_RowFailureNeverAborts ==
    /\ [][LoopNeverRaises]_vars
    /\ (pc = "loop") ~> (attached /\ Len(addresses) = Len(column))

C8_Witness ==
    /\ attached
    /\ Len(addresses) = 2
    /\ addresses[1] \in FailureSentinels

(***************************************************************************)
(* C9: as claimed, an exception anywhere in the file processing ends the   *)
(* run with exactly one error message and no results shown.  In the code   *)
(* the table is displayed before the CSV download is built, so an          *)
(* exception there is reported with the table on screen.                   *)
(***************************************************************************)
C9_ErrorMeansNoResults ==
    /\ errors <= 1
    /\ pc = "failed" => errors = 1
    /\ ~(errors > 0 /\ (tableShown \/ downloadShown))

C9_ErrorAfterTableOnlyFromDownload ==
    /\ errors <= 1
    /\ pc = "failed" => errors = 1
    /\ errors > 0 => pc = "failed" /\ ~downloadShown
    /\ errors > 0 /\ tableShown => raisedAt \in {"csv", "download"}
    /\ errors > 0 /\ raisedAt \in {"read", "loop", "attach", "render"} => ~tableShown

C9_Witness == pc = "failed" /\ errors = 1 /\ tableShown /\ raisedAt = "csv"

(***************************************************************************)
(* C10: GETs are issued in row order, at most one is outstanding, the GET  *)
(* of a row is issued only when the outcomes of all earlier rows are in    *)
(* the result list, and a pause lies between two consecutive GETs.         *)
(***************************************************************************)
OneAtATime ==
    /\ inflight <= 1
    /\ \A j \in 1..Len(gets), k \in 1..Len(gets) :
           j < k => gets[j].row < gets[k].row

PacedIssue ==
    Len(gets') = Len(gets) + 1 =>
        /\ inflight = 0
        /\ Len(addresses) = gets'[Len(gets')].row - 1
        /\ Len(gets) > 0 => pauses >= 1

C10_SequentialAndPaced == []OneAtATime /\ [][PacedIssue]_vars

C10_Witness ==
    /\ Len(gets) = 2
    /\ pc = "wait"
    /\ addresses[1] = "Not Found"
====
